---- MODULE Spec2Model ----
(***************************************************************************)
(* GPS C/A replica PRN generation (src/gps/gps_ca_prn_codes.py).           *)
(*                                                                         *)
(* Two state machines share the operators below:                           *)
(*   SpecCa  one run of _generate_ca_code_with_taps, one loop iteration    *)
(*           per step, followed by the per-satellite marker check and by   *)
(*           the comparison with _generate_ca_code_rolled_by;              *)
(*   Spec    calls of generate_replica_prn_signals, one satellite per      *)
(*           step of the generation and of the verification loop.          *)
(* Python sequences are 0-indexed, TLA+ sequences 1-indexed: element k of  *)
(* a Python list is element k + 1 of its model.                            *)
(***************************************************************************)
EXTENDS Integers, Sequences, FiniteSets, TLC

\* ------------------------------------------------------------------------
\* Program constants
\* ------------------------------------------------------------------------
REGISTER_LENGTH == 10
CA_ITERATIONS == 1023
SEQ_BIT_COUNT == 10
SATELLITES == 1..32

G1_FEEDBACK_bad == <<3, 9>>
G1_FEEDBACK == <<3, 10>>
G1_OUTPUT == <<10>>
G2_FEEDBACK == <<2, 3, 6, 8, 9, 10>>

ALT_G1_TAPS == <<SEQ_BIT_COUNT - 3>>
ALT_G2_TAPS_bad ==
    <<SEQ_BIT_COUNT - 9, SEQ_BIT_COUNT - 8, SEQ_BIT_COUNT - 6, SEQ_BIT_COUNT - 3>>
ALT_G2_TAPS ==
    <<SEQ_BIT_COUNT - 9, SEQ_BIT_COUNT - 8, SEQ_BIT_COUNT - 6,
      SEQ_BIT_COUNT - 3, SEQ_BIT_COUNT - 2>>

satellite_id_to_g2_sequence_tap_configuration_bad ==
    <<
      <<2, 6>>, <<3, 7>>, <<4, 8>>, <<5, 9>>, <<1, 9>>, <<2, 10>>, <<1, 8>>, <<2, 9>>,
      <<3, 10>>, <<2, 3>>, <<3, 4>>, <<5, 6>>, <<6, 7>>, <<7, 8>>, <<8, 9>>, <<9, 10>>,
      <<1, 4>>, <<2, 5>>, <<3, 6>>, <<4, 7>>, <<5, 8>>, <<6, 9>>, <<1, 4>>, <<4, 6>>,
      <<5, 7>>, <<6, 8>>, <<7, 9>>, <<8, 10>>, <<1, 6>>, <<2, 7>>, <<3, 8>>, <<4, 9>>
    >>
satellite_id_to_g2_sequence_tap_configuration ==
    <<
      <<2, 6>>, <<3, 7>>, <<4, 8>>, <<5, 9>>, <<1, 9>>, <<2, 10>>, <<1, 8>>, <<2, 9>>,
      <<3, 10>>, <<2, 3>>, <<3, 4>>, <<5, 6>>, <<6, 7>>, <<7, 8>>, <<8, 9>>, <<9, 10>>,
      <<1, 4>>, <<2, 5>>, <<3, 6>>, <<4, 7>>, <<5, 8>>, <<6, 9>>, <<1, 3>>, <<4, 6>>,
      <<5, 7>>, <<6, 8>>, <<7, 9>>, <<8, 10>>, <<1, 6>>, <<2, 7>>, <<3, 8>>, <<4, 9>>
    >>

expected_prn_starting_markers ==
    <<
      1440, 1620, 1710, 1744, 1133, 1455, 1131, 1454,
      1626, 1504, 1642, 1750, 1764, 1772, 1775, 1776,
      1156, 1467, 1633, 1715, 1746, 1763, 1063, 1706,
      1743, 1761, 1770, 1774, 1127, 1453, 1625, 1712
    >>

\* ------------------------------------------------------------------------
\* shift: one step of a GPS shift register
\* ------------------------------------------------------------------------
\* sum([register[i-1] for i in taps]) over taps[k..]
RECURSIVE SumAt(_, _, _)
SumAt(register, taps, k) ==
    IF k > Len(taps) THEN 0
    ELSE register[taps[k]] + SumAt(register, taps, k + 1)

\* A copy loop that runs upwards: every position ends up holding position 1.
RECURSIVE ShiftRight_ascending(_, _)
ShiftRight_ascending(register, j) ==
    IF j < 1 THEN register
    ELSE LET lower == ShiftRight_ascending(register, j - 1)
         IN [lower EXCEPT ![j + 1] = lower[j]]

\* for i in reversed(range(len(register[1:]))): register[i+1] = register[i]
\* j is i + 1 and runs from Len(register) - 1 down to 1.
RECURSIVE ShiftRight(_, _)
ShiftRight(register, j) ==
    IF j < 1 THEN register
    ELSE ShiftRight([register EXCEPT ![j + 1] = register[j]], j - 1)

\* The register after the call and the returned output bit.
shift(register, feedback, output) ==
    LET out == IF Len(output) > 1 THEN SumAt(register, output, 1) % 2
               ELSE register[output[1]]
        fb == SumAt(register, feedback, 1) % 2
        shifted == ShiftRight(register, Len(register) - 1)
    IN [out |-> out, register |-> [shifted EXCEPT ![1] = fb]]

\* ------------------------------------------------------------------------
\* _generate_ca_code_with_taps
\* ------------------------------------------------------------------------
AllOnes == [i \in 1..REGISTER_LENGTH |-> 1]
AllZeros == [i \in 1..REGISTER_LENGTH |-> 0]

\* The state at loop entry: G1, G2 all ones, ca empty.
CaStart == [G1 |-> AllOnes, G2 |-> AllOnes, ca |-> <<>>, g1 |-> 1, g2 |-> 1]

\* The loop body without the modulo-2 reduction of the appended chip.
CaLoopStep_unreduced(s, taps) ==
    LET r1 == shift(s.G1, G1_FEEDBACK, G1_OUTPUT)
        r2 == shift(s.G2, G2_FEEDBACK, taps)
    IN [G1 |-> r1.register, G2 |-> r2.register,
        ca |-> Append(s.ca, r1.out + r2.out),
        g1 |-> r1.out, g2 |-> r2.out]

\* One iteration of the loop body.
CaLoopStep(s, taps) ==
    LET r1 == shift(s.G1, G1_FEEDBACK, G1_OUTPUT)
        r2 == shift(s.G2, G2_FEEDBACK, taps)
    IN [G1 |-> r1.register, G2 |-> r2.register,
        ca |-> Append(s.ca, (r1.out + r2.out) % 2),
        g1 |-> r1.out, g2 |-> r2.out]

\* n iterations of the loop body from state s.  The n iterations are split
\* in two halves and the first half is evaluated before the second starts,
\* which keeps the evaluation depth logarithmic in n.
RECURSIVE CaLoop(_, _, _)
CaLoop(s, taps, n) ==
    IF n = 0 THEN s
    ELSE IF n = 1 THEN CaLoopStep(s, taps)
    ELSE LET half == CaLoop(s, taps, n \div 2)
         IN IF Len(half.ca) = Len(s.ca) + (n \div 2)
            THEN CaLoop(half, taps, n - (n \div 2))
            ELSE half

generate_ca_code_with_taps(taps) == CaLoop(CaStart, taps, CA_ITERATIONS).ca

\* ------------------------------------------------------------------------
\* _generate_ca_code_rolled_by
\* ------------------------------------------------------------------------
\* scipy.signal.max_len_seq(nbits, taps=taps)[0], as its inner loop computes
\* it: state starts all ones, idx at 0; each of the 2^nbits - 1 iterations
\* emits state[idx], xors state[(t + idx) % nbits] of every tap t into it,
\* stores the result at state[idx] and advances idx.
RECURSIVE MlsFeedback(_, _, _, _, _)
MlsFeedback(state, idx, taps, nbits, k) ==
    IF k > Len(taps) THEN state[idx + 1]
    ELSE (state[((taps[k] + idx) % nbits) + 1]
          + MlsFeedback(state, idx, taps, nbits, k + 1)) % 2

MlsStep(s, taps, nbits) ==
    [state |-> [s.state EXCEPT
                  ![s.idx + 1] = MlsFeedback(s.state, s.idx, taps, nbits, 1)],
     idx |-> (s.idx + 1) % nbits,
     seq |-> Append(s.seq, s.state[s.idx + 1])]

RECURSIVE MlsLoop(_, _, _, _)
MlsLoop(s, taps, nbits, n) ==
    IF n = 0 THEN s
    ELSE IF n = 1 THEN MlsStep(s, taps, nbits)
    ELSE LET half == MlsLoop(s, taps, nbits, n \div 2)
         IN IF Len(half.seq) = Len(s.seq) + (n \div 2)
            THEN MlsLoop(half, taps, nbits, n - (n \div 2))
            ELSE half

max_len_seq(nbits, taps) ==
    MlsLoop([state |-> [i \in 1..nbits |-> 1], idx |-> 0, seq |-> <<>>],
            taps, nbits, (2 ^ nbits) - 1).seq

\* np.roll(a, shift): element i of the result is element (i - shift) mod n.
roll(a, k) == [i \in 1..Len(a) |-> a[((i - 1 - k) % Len(a)) + 1]]

\* np.bitwise_xor on 0/1 arrays of equal length.
bitwise_xor(a, b) == [i \in 1..Len(a) |-> (a[i] + b[i]) % 2]

\* The return expression of _generate_ca_code_rolled_by, given its locals.
rolled_ca_code(g1seq, g2seq, delay_ms) == bitwise_xor(g1seq, roll(g2seq, delay_ms))

\* ------------------------------------------------------------------------
\* The verification of one satellite (body of the loop over the markers)
\* ------------------------------------------------------------------------
NoError == [type |-> "None", message |-> "", args |-> <<>>]
MarkerError ==
    [type |-> "ValueError",
     message |-> "Test vector PRN is always expected to begin with 1",
     args |-> <<>>]
FirstBitError ==
    [type |-> "ValueError",
     message |-> "Generated PRNs always need to start with 1",
     args |-> <<>>]
DigitError(sv, actual, expected) ==
    [type |-> "ValueError",
     message |-> "SV {}: PRN digit {} didn't match expected digit {}",
     args |-> <<sv, actual, expected>>]

\* str(n) for n >= 0, as the sequence of its decimal digits.
RECURSIVE str(_)
str(n) == IF n < 10 THEN <<n>> ELSE Append(str(n \div 10), n % 10)

\* a[lo:hi] of Python (0-indexed, hi exclusive, clamped to the length).
Slice(a, lo, hi) ==
    LET l == IF lo > Len(a) THEN Len(a) ELSE lo
        h == IF hi > Len(a) THEN Len(a) ELSE hi
    IN SubSeq(a, l + 1, h)

\* int(''.join(str(bit) for bit in bits), 2) for a non-empty run of bits (the
\* slices taken for a four-digit marker are never empty).
RECURSIVE IntBase2(_, _)
IntBase2(bits, k) ==
    IF k = 0 THEN 0 ELSE 2 * IntBase2(bits, k - 1) + bits[k]

\* The digit loop from digit_idx on: the first mismatch, or NoError.
RECURSIVE CheckDigits(_, _, _, _)
CheckDigits(sv, digits, prn, digit_idx) ==
    IF digit_idx >= Len(digits) THEN NoError
    ELSE LET start == digit_idx * 3
             bits == Slice(prn, start, start + 3)
             actual == IntBase2(bits, Len(bits))
             expected == digits[digit_idx + 1]
         IN IF actual /= expected THEN DigitError(sv, actual, expected)
            ELSE CheckDigits(sv, digits, prn, digit_idx + 1)

\* A loop body that tests the first bit before the marker.
VerifySatellite_bit_first(sv, prn, marker) ==
    LET digits == str(marker)
    IN IF prn[1] /= 1 THEN FirstBitError
       ELSE IF digits[1] /= 1 THEN MarkerError
       ELSE CheckDigits(sv, Tail(digits), Tail(prn), 0)

\* A loop body that compares only the first two octal digits.
VerifySatellite_two_digits(sv, prn, marker) ==
    LET digits == str(marker)
    IN IF digits[1] /= 1 THEN MarkerError
       ELSE IF prn[1] /= 1 THEN FirstBitError
       ELSE CheckDigits(sv, SubSeq(digits, 2, 3), Tail(prn), 0)

\* The loop body for one satellite: the error it raises, or NoError.
VerifySatellite(sv, prn, marker) ==
    LET digits == str(marker)
    IN IF digits[1] /= 1 THEN MarkerError
       ELSE IF prn[1] /= 1 THEN FirstBitError
       ELSE CheckDigits(sv, Tail(digits), Tail(prn), 0)

\* ------------------------------------------------------------------------
\* Table variants: the tables of the source, and the tables with one entry
\* changed (a tap replaced or removed, a marker digit changed)
\* ------------------------------------------------------------------------
TAP_POSITIONS == 1..REGISTER_LENGTH

\* cfg with one of its two taps replaced by another position.
TapReplacements(cfg) ==
    {[cfg EXCEPT ![pv[1]] = pv[2]] :
        pv \in {x \in (1..2) \X TAP_POSITIONS : x[2] /= cfg[x[1]]}}

\* cfg with one of its two taps removed.
TapRemovals(cfg) == {<<cfg[1]>>, <<cfg[2]>>}

TapVariants(sv) ==
    LET cfg == satellite_id_to_g2_sequence_tap_configuration[sv]
    IN {cfg} \cup TapReplacements(cfg) \cup TapRemovals(cfg)

\* 10^k
RECURSIVE Pow10(_)
Pow10(k) == IF k = 0 THEN 1 ELSE 10 * Pow10(k - 1)

\* The four-digit marker m with the digit of weight 10^k replaced by the
\* next decimal digit.
WithNextDigit(m, k) ==
    LET d == (m \div Pow10(k)) % 10
    IN m - d * Pow10(k) + ((d + 1) % 10) * Pow10(k)

MarkerVariants(sv) ==
    LET m == expected_prn_starting_markers[sv]
    IN {m} \cup {WithNextDigit(m, k) : k \in 0..3}

\* ------------------------------------------------------------------------
\* SpecCa: one run of _generate_ca_code_with_taps(taps) for satellite csat,
\* then either the marker check of that satellite or the comparison with
\* _generate_ca_code_rolled_by(delay_ms) for delay_ms = 0, 1, ...
\* ------------------------------------------------------------------------
VARIABLES
    csat,       \* the satellite the run is for
    taps,       \* the argument of _generate_ca_code_with_taps
    G1, G2,     \* the two registers
    ca,         \* the chips appended so far
    prevG1, prevG2, \* the registers before the last iteration
    g1, g2,     \* the output bits of the last iteration
    cpc,        \* "loop", "done", "checked", "alt", "matched", "unmatched"
    marker,     \* the marker the sequence was checked against
    cerr,       \* the error the check raised, or NoError
    alt_g1, alt_g2, \* locals g1, g2 of _generate_ca_code_rolled_by
    delay_ms    \* the argument of _generate_ca_code_rolled_by

cavars == <<csat, taps, G1, G2, ca, prevG1, prevG2, g1, g2, cpc, marker, cerr,
            alt_g1, alt_g2, delay_ms>>

VARIABLES
    tap_table,    \* satellite_id_to_g2_sequence_tap_configuration of the call
    markers,      \* expected_prn_starting_markers of the call
    pc,           \* "ready", "generate", "verify", "returned", "raised"
    output,       \* the dict under construction, in insertion order
    satellite_id, \* the satellite the verification loop is at
    result,       \* the table the last call returned, <<>> if none
    first_result, \* the table the first successful call returned
    err,          \* the error the last call raised, or NoError
    calls,        \* calls started
    generated     \* calls of _generate_ca_code_with_taps so far

pvars == <<tap_table, markers, pc, output, satellite_id, result, first_result, err,
           calls, generated>>

vars == <<cavars, pvars>>

\* No call of generate_replica_prn_signals is modelled.
PipelineIdle ==
    /\ tap_table = satellite_id_to_g2_sequence_tap_configuration
    /\ markers = expected_prn_starting_markers
    /\ pc = "off"
    /\ output = <<>>
    /\ satellite_id = 0
    /\ result = <<>>
    /\ first_result = <<>>
    /\ err = NoError
    /\ calls = 0
    /\ generated = 0

CaInit ==
    /\ PipelineIdle
    /\ csat \in SATELLITES
    /\ taps \in TapVariants(csat)
    /\ G1 = CaStart.G1
    /\ G2 = CaStart.G2
    /\ ca = CaStart.ca
    /\ prevG1 = CaStart.G1
    /\ prevG2 = CaStart.G2
    /\ g1 = CaStart.g1
    /\ g2 = CaStart.g2
    /\ cpc = "loop"
    /\ marker = 0
    /\ cerr = NoError
    /\ alt_g1 = <<>>
    /\ alt_g2 = <<>>
    /\ delay_ms = 0

\* One iteration of "for _ in range(1023)".
CaIterate ==
    /\ cpc = "loop"
    /\ Len(ca) < CA_ITERATIONS
    /\ LET s == CaLoopStep([G1 |-> G1, G2 |-> G2, ca |-> ca, g1 |-> g1, g2 |-> g2],
                           taps)
       IN /\ G1' = s.G1
          /\ G2' = s.G2
          /\ ca' = s.ca
          /\ g1' = s.g1
          /\ g2' = s.g2
    /\ prevG1' = G1
    /\ prevG2' = G2
    /\ UNCHANGED <<csat, taps, cpc, marker, cerr, alt_g1, alt_g2, delay_ms>>
    /\ UNCHANGED pvars

\* Loop exit and "return np.array(ca)".
CaReturn ==
    /\ cpc = "loop"
    /\ Len(ca) = CA_ITERATIONS
    /\ cpc' = "done"
    /\ UNCHANGED <<csat, taps, G1, G2, ca, prevG1, prevG2, g1, g2, marker, cerr,
                   alt_g1, alt_g2, delay_ms>>
    /\ UNCHANGED pvars

\* The verification loop body for csat, against its marker or a variant.
CheckSatellite ==
    /\ cpc = "done"
    /\ \E m \in MarkerVariants(csat) :
          /\ marker' = m
          /\ cerr' = VerifySatellite(csat, ca, m)
    /\ cpc' = "checked"
    /\ UNCHANGED <<csat, taps, G1, G2, ca, prevG1, prevG2, g1, g2,
                   alt_g1, alt_g2, delay_ms>>
    /\ UNCHANGED pvars

\* _generate_ca_code_rolled_by up to its return statement: the G1 and the
\* pure G2 maximal-length sequences.
AltSequences ==
    /\ cpc = "done"
    /\ taps = satellite_id_to_g2_sequence_tap_configuration[csat]
    /\ alt_g1' = max_len_seq(SEQ_BIT_COUNT, ALT_G1_TAPS)
    /\ alt_g2' = max_len_seq(SEQ_BIT_COUNT, ALT_G2_TAPS)
    /\ delay_ms' = 0
    /\ cpc' = "alt"
    /\ UNCHANGED <<csat, taps, G1, G2, ca, prevG1, prevG2, g1, g2, marker, cerr>>
    /\ UNCHANGED pvars

\* The return value of _generate_ca_code_rolled_by(delay_ms) compared with
\* ca; on a difference the next delay is tried, up to 1022.
AltCompare ==
    /\ cpc = "alt"
    /\ IF rolled_ca_code(alt_g1, alt_g2, delay_ms) = ca
       THEN cpc' = "matched" /\ delay_ms' = delay_ms
       ELSE IF delay_ms = CA_ITERATIONS - 1
            THEN cpc' = "unmatched" /\ delay_ms' = delay_ms
            ELSE cpc' = "alt" /\ delay_ms' = delay_ms + 1
    /\ UNCHANGED <<csat, taps, G1, G2, ca, prevG1, prevG2, g1, g2, marker, cerr,
                   alt_g1, alt_g2>>
    /\ UNCHANGED pvars

CaNext == CaIterate \/ CaReturn \/ CheckSatellite \/ AltSequences \/ AltCompare

SpecCa == CaInit /\ [][CaNext]_vars

\* ------------------------------------------------------------------------
\* Spec: calls of generate_replica_prn_signals
\* ------------------------------------------------------------------------
MaxCalls == 2

\* The satellites whose table entries the calls are also run with changed.
FAULTY_SATELLITES == {1, 32}

\* The tap table and the marker table of a call: the tables of the source,
\* or the tables with the entry of one satellite changed.
TablePairs ==
    LET T == satellite_id_to_g2_sequence_tap_configuration
        M == expected_prn_starting_markers
        replaced(sv) ==
            [T EXCEPT ![sv] = <<(T[sv][1] % REGISTER_LENGTH) + 1, T[sv][2]>>]
        removed(sv) == [T EXCEPT ![sv] = <<T[sv][1]>>]
        digit(sv) == [M EXCEPT ![sv] = WithNextDigit(M[sv], 0)]
        leading(sv) == [M EXCEPT ![sv] = WithNextDigit(M[sv], 3)]
    IN {<<T, M>>}
       \cup {<<replaced(sv), M>> : sv \in FAULTY_SATELLITES}
       \cup {<<removed(sv), M>> : sv \in FAULTY_SATELLITES}
       \cup {<<T, digit(sv)>> : sv \in FAULTY_SATELLITES}
       \cup {<<T, leading(sv)>> : sv \in FAULTY_SATELLITES}
       \cup {<<removed(sv), leading(sv)>> : sv \in FAULTY_SATELLITES}

\* No separate run of _generate_ca_code_with_taps is modelled.
CaIdle ==
    /\ csat = 0
    /\ taps = <<>>
    /\ G1 = CaStart.G1
    /\ G2 = CaStart.G2
    /\ ca = CaStart.ca
    /\ prevG1 = CaStart.G1
    /\ prevG2 = CaStart.G2
    /\ g1 = CaStart.g1
    /\ g2 = CaStart.g2
    /\ cpc = "off"
    /\ marker = 0
    /\ cerr = NoError
    /\ alt_g1 = <<>>
    /\ alt_g2 = <<>>
    /\ delay_ms = 0

Init ==
    /\ CaIdle
    /\ \E tm \in TablePairs :
          /\ tap_table = tm[1]
          /\ markers = tm[2]
    /\ pc = "ready"
    /\ output = <<>>
    /\ satellite_id = 0
    /\ result = <<>>
    /\ first_result = <<>>
    /\ err = NoError
    /\ calls = 0
    /\ generated = 0

\* A call that hands back the table of an earlier successful call.
Call_cached ==
    /\ pc \in {"ready", "returned", "raised"}
    /\ calls < MaxCalls
    /\ calls' = calls + 1
    /\ IF first_result /= <<>>
       THEN /\ pc' = "returned"
            /\ result' = first_result
       ELSE /\ pc' = "generate"
            /\ result' = <<>>
    /\ output' = <<>>
    /\ err' = NoError
    /\ UNCHANGED <<tap_table, markers, satellite_id, first_result, generated>>
    /\ UNCHANGED cavars

\* Entry of generate_replica_prn_signals.
Call ==
    /\ pc \in {"ready", "returned", "raised"}
    /\ calls < MaxCalls
    /\ calls' = calls + 1
    /\ pc' = "generate"
    /\ output' = <<>>
    /\ result' = <<>>
    /\ err' = NoError
    /\ UNCHANGED <<tap_table, markers, satellite_id, first_result, generated>>
    /\ UNCHANGED cavars

\* One entry of the dict comprehension; after the last one the marker loop
\* starts at its first satellite.
Generate ==
    /\ pc = "generate"
    /\ LET sat == Len(output) + 1
       IN /\ output' = Append(output,
                 [inner |-> generate_ca_code_with_taps(tap_table[sat])])
          /\ IF sat = Len(tap_table)
             THEN pc' = "verify" /\ satellite_id' = 1
             ELSE pc' = "generate" /\ satellite_id' = satellite_id
    /\ generated' = generated + 1
    /\ UNCHANGED <<tap_table, markers, result, first_result, err, calls>>
    /\ UNCHANGED cavars

\* A marker loop that stops before the last entry of the table.
MarkerLoopDone_early(k, table) == k >= Len(table)

\* The loop over the entries of the marker table has passed the last one.
MarkerLoopDone(k, table) == k > Len(table)

\* An iteration of the marker loop that raises nothing.
VerifyPass ==
    /\ pc = "verify"
    /\ ~MarkerLoopDone(satellite_id, markers)
    /\ VerifySatellite(satellite_id, output[satellite_id].inner,
                       markers[satellite_id]) = NoError
    /\ satellite_id' = satellite_id + 1
    /\ UNCHANGED <<tap_table, markers, pc, output, result, first_result, err, calls,
                   generated>>
    /\ UNCHANGED cavars

\* An iteration of the marker loop that raises: the call ends, its locals go.
VerifyRaise ==
    /\ pc = "verify"
    /\ ~MarkerLoopDone(satellite_id, markers)
    /\ VerifySatellite(satellite_id, output[satellite_id].inner,
                       markers[satellite_id]) /= NoError
    /\ err' = VerifySatellite(satellite_id, output[satellite_id].inner,
                              markers[satellite_id])
    /\ pc' = "raised"
    /\ output' = <<>>
    /\ UNCHANGED <<tap_table, markers, satellite_id, result, first_result, calls,
                   generated>>
    /\ UNCHANGED cavars

\* "return output" after the marker loop.
Return ==
    /\ pc = "verify"
    /\ MarkerLoopDone(satellite_id, markers)
    /\ result' = output
    /\ first_result' = IF first_result = <<>> THEN output ELSE first_result
    /\ pc' = "returned"
    /\ output' = <<>>
    /\ UNCHANGED <<tap_table, markers, satellite_id, err, calls, generated>>
    /\ UNCHANGED cavars

Next == Call \/ Generate \/ VerifyPass \/ VerifyRaise \/ Return

Spec == Init /\ [][Next]_vars

\* ------------------------------------------------------------------------
\* Properties
\* ------------------------------------------------------------------------
SourceTaps == satellite_id_to_g2_sequence_tap_configuration
SourceMarkers == expected_prn_starting_markers
DigitMessage == "SV {}: PRN digit {} didn't match expected digit {}"

\* The value of chips 3k+1 .. 3k+3 (0-indexed) of prn as a big-endian number.
OctalAt(prn, k) == 4 * prn[3 * k + 2] + 2 * prn[3 * k + 3] + prn[3 * k + 4]

\* Digit k (0-indexed) of a four-digit marker after its leading digit.
MarkerDigit(m, k) == (m \div Pow10(2 - k)) % 10

\* prn starts with 1, m with the digit 1, and the three digits agree.
MatchesMarker(prn, m) ==
    /\ m \div 1000 = 1
    /\ prn[1] = 1
    /\ \A k \in 0..2 : OctalAt(prn, k) = MarkerDigit(m, k)

\* The first digit index at which prn and m disagree.
FirstMismatch(prn, m) ==
    CHOOSE k \in 0..2 :
        /\ OctalAt(prn, k) /= MarkerDigit(m, k)
        /\ \A j \in 0..(k - 1) : OctalAt(prn, j) = MarkerDigit(m, j)

\* C1: with the tap table and the marker table of the source, no call
\* raises; every generated sequence starts with 1 and its next three 3-bit
\* groups equal the marker's digits after the leading 1 (satellite 1 gives
\* 4,4,0 and satellite 23 gives 0,6,3).
C1_SourceTablesVerify ==
    (tap_table = SourceTaps /\ markers = SourceMarkers) =>
        /\ pc /= "raised"
        /\ err = NoError
        /\ pc = "verify" =>
              \A sat \in SATELLITES :
                  MatchesMarker(output[sat].inner, SourceMarkers[sat])
        /\ pc = "returned" =>
              /\ \A sat \in SATELLITES :
                    MatchesMarker(result[sat].inner, SourceMarkers[sat])
              /\ <<OctalAt(result[1].inner, 0), OctalAt(result[1].inner, 1),
                   OctalAt(result[1].inner, 2)>> = <<4, 4, 0>>
              /\ <<OctalAt(result[23].inner, 0), OctalAt(result[23].inner, 1),
                   OctalAt(result[23].inner, 2)>> = <<0, 6, 3>>

C1_Witness ==
    /\ pc = "returned"
    /\ tap_table = SourceTaps
    /\ markers = SourceMarkers
    /\ calls = 1
    /\ Len(result) = 32

\* C2: for every satellite, the run of _generate_ca_code_with_taps with the
\* satellite's taps of the table returns exactly 1023 elements, each 0 or 1,
\* the first of them 1.
C2_ChipSequenceShape ==
    (cpc /= "off" /\ taps = SourceTaps[csat]) =>
        /\ Len(ca) <= CA_ITERATIONS
        /\ Len(ca) >= 1 => (ca[1] = 1 /\ ca[Len(ca)] \in {0, 1})
        /\ cpc /= "loop" =>
              /\ Len(ca) = 1023
              /\ cpc = "done" => \A i \in 1..Len(ca) : ca[i] \in {0, 1}

C2_Witness ==
    /\ cpc = "done"
    /\ csat = 32
    /\ taps = SourceTaps[32]
    /\ Len(ca) = 1023

\* C3: every value of every signal of the returned table is -1 or +1, chip 0
\* exposed as +1 and chip 1 as -1.
C3_ReplicaValuesArePlusMinusOne ==
    pc = "returned" =>
        \A sat \in 1..Len(result) :
            LET chips == generate_ca_code_with_taps(tap_table[sat])
            IN \A i \in 1..Len(result[sat].inner) :
                  /\ result[sat].inner[i] \in {-1, 1}
                  /\ result[sat].inner[i] = 1 - 2 * chips[i]

\* C4: a call either returns a table of all 32 satellites, each of which
\* agrees with its marker, or raises and returns no table; no table with
\* fewer entries or with an entry that disagrees with its marker is returned,
\* also when a tap entry or a marker is wrong.
C4_AllOrNothing ==
    /\ result /= <<>> =>
          /\ pc = "returned"
          /\ Len(result) = 32
          /\ \A sat \in SATELLITES : MatchesMarker(result[sat].inner, markers[sat])
    /\ pc = "returned" => (result /= <<>> /\ err = NoError)
    /\ pc = "raised" => (result = <<>> /\ err /= NoError)
    /\ (tap_table /= SourceTaps \/ markers /= SourceMarkers) => pc /= "returned"

C4_Witness ==
    /\ pc = "raised"
    /\ result = <<>>
    /\ tap_table = SourceTaps
    /\ markers[32] /= SourceMarkers[32]
    /\ err.message = DigitMessage

C6_TapReplacementDetected ==
    (cpc = "checked" /\ marker = SourceMarkers[csat]) =>
        /\ taps \in TapReplacements(SourceTaps[csat]) =>
              /\ cerr.type = "ValueError"
              /\ cerr.message = DigitMessage
              /\ cerr.args[1] = csat
        /\ taps = SourceTaps[csat] => cerr = NoError

C6_Witness ==
    /\ cpc = "checked"
    /\ csat = 16
    /\ taps = <<10, 10>>
    /\ marker = SourceMarkers[16]
    /\ cerr.message = DigitMessage

C8_ErrorCarriesDigitIndex ==
    (cpc = "checked" /\ cerr.message = DigitMessage) =>
        cerr.args = <<csat, FirstMismatch(ca, marker),
                      MarkerDigit(marker, FirstMismatch(ca, marker)),
                      OctalAt(ca, FirstMismatch(ca, marker))>>

\* C8 (amended): when a digit disagrees, the check raises a ValueError whose
\* message carries the satellite id, the actual and the expected octal value
\* of the first disagreeing digit, but not the digit index; its message text
\* differs from the texts of the other two failures; a marker that does not
\* start with 1 is reported before the first bit of the sequence is looked at.
C8_DigitErrorContent ==
    cpc = "checked" =>
        /\ marker \div 1000 /= 1 => cerr = MarkerError
        /\ (marker \div 1000 = 1 /\ ca[1] /= 1) => cerr = FirstBitError
        /\ (marker \div 1000 = 1 /\ ca[1] = 1 /\ ~MatchesMarker(ca, marker)) =>
              LET k == FirstMismatch(ca, marker)
              IN /\ cerr.type = "ValueError"
                 /\ cerr.message = DigitMessage
                 /\ cerr.args = <<csat, OctalAt(ca, k), MarkerDigit(marker, k)>>
                 /\ cerr.message /= MarkerError.message
                 /\ cerr.message /= FirstBitError.message

C8_Witness ==
    /\ cpc = "checked"
    /\ csat = 5
    /\ taps = SourceTaps[5]
    /\ marker = 1143
    /\ cerr.args = <<5, 3, 4>>

\* C9: one shift step returns a bit computed from the register before the
\* shift (the value at the single output tap, or the parity of the values at
\* the output taps), moves the old value of position i to position i+1 for
\* i in 1..9, puts the parity of the old values at the feedback taps in
\* position 1, and leaves ten elements, each 0 or 1; after any number of steps.
C9_ShiftStep ==
    /\ Len(G1) = 10
    /\ Len(G2) = 10
    /\ \A i \in 1..10 : G1[i] \in {0, 1} /\ G2[i] \in {0, 1}
    /\ (cpc /= "off" /\ Len(ca) >= 1) =>
          /\ g1 = prevG1[10]
          /\ G1[1] = (prevG1[3] + prevG1[10]) % 2
          /\ \A i \in 1..9 : G1[i + 1] = prevG1[i]
          /\ g2 = IF Len(taps) = 1 THEN prevG2[taps[1]]
                  ELSE (prevG2[taps[1]] + prevG2[taps[2]]) % 2
          /\ G2[1] = (prevG2[2] + prevG2[3] + prevG2[6] + prevG2[8] + prevG2[9]
                      + prevG2[10]) % 2
          /\ \A i \in 1..9 : G2[i + 1] = prevG2[i]

C9_Witness ==
    /\ cpc = "loop"
    /\ Len(ca) = 500
    /\ csat = 7
    /\ Len(taps) = 1
    /\ G2 /= prevG2

\* C10: from all ones, neither register ever holds all zeros, neither holds
\* all ones after 1..1022 steps, and both hold all ones after 1023 steps.
C10_MaximalLength ==
    cpc /= "off" =>
        /\ G1 /= AllZeros
        /\ G2 /= AllZeros
        /\ Len(ca) \in 1..(CA_ITERATIONS - 1) => (G1 /= AllOnes /\ G2 /= AllOnes)
        /\ Len(ca) = CA_ITERATIONS => (G1 = AllOnes /\ G2 = AllOnes)

C10_Witness ==
    /\ cpc = "done"
    /\ Len(ca) = CA_ITERATIONS
    /\ G1 = AllOnes
    /\ G2 = AllOnes
    /\ csat = 9

====
